---- MODULE Spec2Model ----
(***************************************************************************)
(* A model of ome_merge.py: the pull-request filter of OME.__init__, the   *)
(* merge pass OME.merge, the recursive submodule walk OME.submodules, the  *)
(* remote cleanup OME.cleanup and the top-level script.                    *)
(*                                                                         *)
(* Text is modelled as a sequence of tokens: the directive "--test", the   *)
(* blank " ", the line break "\n" and words.  The directive has no proper  *)
(* border, so str.startswith and str.replace act on it token by token.     *)
(***************************************************************************)
EXTENDS Integers, Sequences, FiniteSets, TLC

VARIABLES args, subs, pulls, stack, cwd, gitRemotes, sideFile, calls,
          reports, errors, exc, raisedAt, status, probe

vars == <<args, subs, pulls, stack, cwd, gitRemotes, sideFile, calls,
          reports, errors, exc, raisedAt, status, probe>>

(***************************************************************************)
(* Bounds of the model.                                                    *)
(***************************************************************************)
MaxRepos == 3
MaxPulls == 2

\* the submodules one probe lists, at most
MaxListed == 3

\* the lines the pipe holds before a write to it blocks: the buffer of the
\* operating system (64 KiB on Linux), scaled to lines of the probe's output
PipeCapacity == 4

(***************************************************************************)
(* Small helpers on sequences and sets.                                    *)
(***************************************************************************)
Range(s) == {s[i] : i \in 1..Len(s)}

RECURSIVE SeqsUpTo(_, _)
SeqsUpTo(S, n) ==
    IF n = 0 THEN {<<>>}
    ELSE LET shorter == SeqsUpTo(S, n - 1)
         IN  shorter \cup {Append(s, x) : s \in {t \in shorter : Len(t) = n - 1}, x \in S}

RECURSIVE Flatten(_)
Flatten(ss) == IF ss = <<>> THEN <<>> ELSE Head(ss) \o Flatten(Tail(ss))

(***************************************************************************)
(* Data.__init__ and the label comparison of OME.__init__.                 *)
(***************************************************************************)
Directive == "--test"
Blank     == " "
Newline   == "\n"

\* str.lower() on the label names of the model
Lower(l) ==
    CASE l = "Include" -> "include"
      [] l = "EXCLUDE" -> "exclude"
      [] OTHER -> l

\* filter.lower() in [x.lower() for x in data.labels]
LabelHit(filter, labels) == Lower(filter) \in {Lower(x) : x \in labels}

\* self.org.has_in_public_members(data.user)
PublicMembers == {"alice"}
has_in_public_members(login) == login \in PublicMembers

\* the value of found after the base/membership/include test, lines 250-258
FoundBeforeExclude(pr, base, include) ==
    /\ pr.base = base
    /\ \/ has_in_public_members(pr.login)
       \/ \E filter \in include : LabelHit(filter, pr.labels)

\* found when the exclude test spares public members
FoundIgnoringExcludeOfMembers(pr, base, include, exclude) ==
    /\ FoundBeforeExclude(pr, base, include)
    /\ \/ has_in_public_members(pr.login)
       \/ ~ \E filter \in exclude : LabelHit(filter, pr.labels)

\* the value of found at line 267
Found(pr, base, include, exclude) ==
    /\ FoundBeforeExclude(pr, base, include)
    /\ ~ \E filter \in exclude : LabelHit(filter, pr.labels)

(***************************************************************************)
(* Data.test_directories                                                   *)
(***************************************************************************)
\* str.splitlines(): break at every "\n"; no trailing empty line
RECURSIVE splitlines(_)
splitlines(body) ==
    IF body = <<>> THEN <<>>
    ELSE LET brk == {i \in 1..Len(body) : body[i] = Newline}
         IN  IF brk = {} THEN <<body>>
             ELSE LET k == CHOOSE i \in brk : \A j \in brk : i <= j
                  IN  <<SubSeq(body, 1, k - 1)>> \o splitlines(SubSeq(body, k + 1, Len(body)))

\* line.startswith("--test")
startswith(line) == line # <<>> /\ line[1] = Directive

IsDirective(t) == t = Directive

\* line.replace("--test", ""): every occurrence goes
replaceDirective(line) == SelectSeq(line, LAMBDA t : ~ IsDirective(t))

LinesOfComment(body) ==
    LET lines == splitlines(body)
        kept  == SelectSeq(lines, startswith)
    IN  [i \in 1..Len(kept) |-> replaceDirective(kept[i])]

test_directories(pr) ==
    Flatten([i \in 1..Len(pr.comments) |-> LinesOfComment(pr.comments[i])])

(***************************************************************************)
(* OME.__init__, lines 238-282: selection, ordering and the side file      *)
(***************************************************************************)
\* Data(self.repo, pr)
Data(repo, pr) ==
    [repo |-> repo, num |-> pr.num, base |-> pr.base, login |-> pr.login,
     labels |-> pr.labels, comments |-> pr.comments]

\* insertion of d into a list sorted by num, after the entries that do not
\* compare greater (list.sort is stable)
RECURSIVE InsertByNum(_, _)
InsertByNum(d, sorted) ==
    IF sorted = <<>> THEN <<d>>
    ELSE IF Head(sorted).num <= d.num
         THEN <<Head(sorted)>> \o InsertByNum(d, Tail(sorted))
         ELSE <<d>> \o sorted

RECURSIVE SortByNum(_)
SortByNum(s) ==
    IF s = <<>> THEN <<>>
    ELSE InsertByNum(s[Len(s)], SortByNum(SubSeq(s, 1, Len(s) - 1)))

\* the list left as it was appended to
Unsorted(s) == s

\* self.storage.sort(lambda a, b: cmp(a.num, b.num))
SortStorage(s) == SortByNum(s)

\* the records appended to self.storage, in the order of the listing
Selected(repo, listing, base, include, exclude) ==
    LET datas == [i \in 1..Len(listing) |-> Data(repo, listing[i])]
    IN  SelectSeq(datas, LAMBDA d : Found(d, base, include, exclude))

\* what the loop writes to directories.txt, in the order of the listing
DirectoriesWritten(selected) ==
    Flatten([i \in 1..Len(selected) |-> test_directories(selected[i])])

\* the login of every listed pull request collected, selected or not
ConstructedLoginsOfListing(repo, listing, a) ==
    LET sel == Selected(repo, listing, a.base, a.include, a.exclude)
    IN  [storage       |-> SortStorage(sel),
         unique_logins |-> {listing[i].login : i \in 1..Len(listing)},
         directories   |-> DirectoriesWritten(sel)]

\* the object state left by the constructor
Constructed(repo, listing, a) ==
    LET sel == Selected(repo, listing, a.base, a.include, a.exclude)
    IN  [storage       |-> SortStorage(sel),
         unique_logins |-> {sel[i].login : i \in 1..Len(sel)},
         directories   |-> DirectoriesWritten(sel)]

(***************************************************************************)
(* pushTeam, line 390: "%g" % build_number                                 *)
(***************************************************************************)
RECURSIVE Pow10(_)
Pow10(k) == IF k = 0 THEN 1 ELSE 10 * Pow10(k - 1)

RECURSIVE NumDigits(_)
NumDigits(n) == IF n < 10 THEN 1 ELSE 1 + NumDigits(n \div 10)

RECURSIVE StripZeros(_)
StripZeros(m) == IF m # 0 /\ m % 10 = 0 THEN StripZeros(m \div 10) ELSE m

\* six significant digits; plain digits below 10^6, mantissa and exponent
\* from there on (1234567 prints as 1.23457e+06)
FormatG(n) ==
    IF n < 1000000 THEN [digits |-> n, exp |-> 0]
    ELSE LET e     == NumDigits(n) - 1
             scale == Pow10(e - 5)
             q     == n \div scale
             r     == n % scale
             up    == 2 * r > scale \/ (2 * r = scale /\ q % 2 = 1)
             m     == IF up THEN q + 1 ELSE q
         IN  IF m = 1000000 THEN [digits |-> 1, exp |-> e + 1]
             ELSE [digits |-> StripZeros(m), exp |-> e]

\* the text of the build number as typed on the command line
Decimal(n) == [digits |-> n, exp |-> 0]

(***************************************************************************)
(* Inputs: the command line, the submodule tree, the open pull requests    *)
(***************************************************************************)
Top == 1
NoDir == 0

Base == "develop"
OtherBase == "dev_4_4"

\* comment bodies: none; one directive line; two comments with a directive
\* inside a line, twice in a line and right before a word
NoComments    == <<>>
OneDirective  == << <<Directive, Blank, "integration/foo">> >>
ManyDirective == << <<"text", Blank, Directive, Newline, Directive, Blank, "a", Blank, Directive>>,
                    <<Directive, "b", Newline>> >>

\* lines 418-421: the value of GITHUB_TOKEN
Token == "token"

\* --buildnumber: absent (None) or an integer
BuildNumbers == {<<>>, <<0>>, <<5>>, <<1234567>>}

RunArgs ==
    [info : BOOLEAN, reset : BOOLEAN, buildnumber : BuildNumbers,
     base : {Base}, include : {{"include"}}, exclude : {{"exclude"}},
     token : {Token}]

PullRecord(n, b, l, ls, cs) ==
    [num |-> n, base |-> b, login |-> l, labels |-> ls, comments |-> cs]

RunPulls ==
    { PullRecord(7, Base, "alice", {}, OneDirective),
      PullRecord(3, Base, "bob", {"Include"}, NoComments),
      PullRecord(5, Base, "alice", {}, NoComments),
      PullRecord(4, Base, "bob", {"include", "exclude"}, NoComments) }

\* the listings of the hosting API: any order, pull-request numbers unique
DistinctNums(s) == \A i, j \in 1..Len(s) : i # j => s[i].num # s[j].num

RunListings == {s \in SeqsUpTo(RunPulls, MaxPulls) : DistinctNums(s)}

\* the number of open pull requests in the whole tree
RECURSIVE TotalPulls(_, _)
TotalPulls(listings, n) ==
    IF n = 0 THEN 0 ELSE Len(listings[n]) + TotalPulls(listings, n - 1)

\* the submodules of each repository, in the order "git submodule foreach"
\* lists them
RECURSIVE SortedSeq(_)
SortedSeq(S) ==
    IF S = {} THEN <<>>
    ELSE LET m == CHOOSE x \in S : \A y \in S : x <= y
         IN  <<m>> \o SortedSeq(S \ {m})

Trees(n) ==
    { [r \in 1..n |-> SortedSeq({c \in 2..n : par[c] = r})] :
          par \in {f \in [2..n -> 1..n] : \A c \in 2..n : f[c] < c} }

\* the statement that raised the pending exception, by its line: the raise
\* of OME.call, os.chdir in OME.cd, get_organization, get_pulls on the
\* repository handle that line 234 left unset, the raise of pushTeam
NoRaise == 0
RaiseInCall == 296
RaiseInChdir == 286
RaiseInOrgLookup == 232
RaiseInGetPulls == 237
RaiseInPush == 397

RaiseLine(outcome) ==
    CASE outcome = "org" -> RaiseInOrgLookup
      [] outcome = "repo" -> RaiseInGetPulls
      [] outcome = "cd" -> RaiseInChdir
      [] OTHER -> RaiseInCall

\* no probe of the submodules is under way
NoProbe == [pc |-> "none"]

Start ==
    /\ stack = <<>>
    /\ cwd = Top
    /\ gitRemotes = [r \in DOMAIN subs |-> {}]
    /\ sideFile = [r \in DOMAIN subs |-> <<>>]
    /\ calls = <<>>
    /\ reports = <<>>
    /\ errors = <<>>
    /\ exc = FALSE
    /\ raisedAt = NoRaise
    /\ status = "start"

\* the inputs of one constructor call: every combination of base, author,
\* labels and comments, listed in descending pull-request number
FilterPulls ==
    [base : {Base, OtherBase}, login : {"alice", "bob"},
     labels : SUBSET {"Include", "exclude"},
     comments : {NoComments, OneDirective, ManyDirective}]

Numbered(s) ==
    [i \in 1..Len(s) |->
        PullRecord(Len(s) + 1 - i, s[i].base, s[i].login, s[i].labels, s[i].comments)]

FilterListings == {Numbered(s) : s \in SeqsUpTo(FilterPulls, MaxPulls)}

FilterArgs ==
    [info : {FALSE}, reset : {FALSE}, buildnumber : {<<>>},
     base : {Base}, include : {{}, {"include"}},
     exclude : {{}, {"exclude"}, {"EXCLUDE"}}, token : {Token}]

InitFilter ==
    /\ subs = [r \in {Top} |-> <<>>]
    /\ pulls \in {[r \in {Top} |-> l] : l \in FilterListings}
    /\ args \in FilterArgs
    /\ probe = NoProbe
    /\ Start

Init ==
    /\ \E n \in 1..MaxRepos :
          /\ subs \in Trees(n)
          /\ pulls \in {p \in [1..n -> RunListings] : TotalPulls(p, n) <= MaxPulls}
    /\ args \in RunArgs
    /\ probe = NoProbe
    /\ Start

(***************************************************************************)
(* Text of the probe and of origin URLs, a sequence of one-character       *)
(* strings (lines 329-341)                                                 *)
(***************************************************************************)
\* str.split(sep), sep one character
RECURSIVE split(_, _)
split(s, sep) ==
    IF sep \notin Range(s) THEN <<s>>
    ELSE LET i == CHOOSE k \in 1..Len(s) : s[k] = sep /\ \A j \in 1..(k - 1) : s[j] # sep
         IN  <<SubSeq(s, 1, i - 1)>> \o split(SubSeq(s, i + 1, Len(s)), sep)

Whitespace == {" ", "\n"}

\* str.strip()
RECURSIVE strip(_)
strip(s) ==
    IF s = <<>> THEN s
    ELSE IF s[1] \in Whitespace THEN strip(Tail(s))
    ELSE IF s[Len(s)] \in Whitespace THEN strip(SubSeq(s, 1, Len(s) - 1))
    ELSE s

\* str.endswith(suffix)
endswith(s, suffix) ==
    Len(s) >= Len(suffix) /\ SubSeq(s, Len(s) - Len(suffix) + 1, Len(s)) = suffix

DotGit == <<".", "g", "i", "t">>

\* the suffix left in place
ParseUrlKeepingSuffix(url) ==
    LET parts == split(url, "/")
        sz    == Len(parts)
        org   == parts[sz - 1]
        cut   == split(org, ":")
    IN  [org  |-> IF ":" \in Range(org) THEN cut[Len(cut)] ELSE org,
         repo |-> parts[sz]]

\* lines 333-341: organization and repository name out of the origin URL
ParseUrl(url) ==
    LET parts == split(url, "/")
        sz    == Len(parts)
        org   == parts[sz - 1]
        repo  == parts[sz]
        cut   == split(org, ":")
    IN  [org  |-> IF ":" \in Range(org) THEN cut[Len(cut)] ELSE org,
         repo |-> IF endswith(repo, DotGit) THEN SubSeq(repo, 1, Len(repo) - 4) ELSE repo]

\* lines 331-332: the directory out of "Entering 'dir'"
ParseDir(line) ==
    LET word == split(strip(line), " ")[2]
    IN  SubSeq(word, 2, Len(word) - 1)

\* origin URLs: the scp-like form and the https form, each with and without
\* the suffix .git
SshHost == <<"g", "i", "t", "@", "g", "i", "t", "h", "u", "b", ".", "c", "o", "m", ":">>
HttpsHost == <<"h", "t", "t", "p", "s", ":", "/", "/", "g", "i", "t", "h", "u", "b", ".", "c", "o", "m", "/">>

UrlForms == {"ssh_git", "ssh", "https", "https_git"}
Orgs == {<<"o", "m", "e">>, <<"g", "l">>}
Names == {<<"b", "f">>, <<"g", "i", "t">>}

OriginUrl(form, org, name) ==
    (IF form \in {"ssh_git", "ssh"} THEN SshHost ELSE HttpsHost)
        \o org \o <<"/">> \o name
        \o (IF form \in {"ssh_git", "https_git"} THEN DotGit ELSE <<>>)

Listed == SeqsUpTo([form : UrlForms, org : Orgs, name : Names], MaxListed)

DirDigits == <<"1", "2", "3", "4", "5", "6", "7", "8", "9">>
DirOf(i) == <<"l", "i", "b", "/", DirDigits[i]>>

\* what git writes for the i-th submodule: the line of foreach, then the
\* output of git config --get remote.origin.url
EnteringLine(i) == <<"E", "n", "t", "e", "r", "i", "n", "g", " ", "'">> \o DirOf(i) \o <<"'">>

ProbeOutput(listed) ==
    Flatten([i \in 1..Len(listed) |->
                <<EnteringLine(i), OriginUrl(listed[i].form, listed[i].org, listed[i].name)>>])

\* the origin URL of repository r of the tree: the forms alternate
UrlOfRepo(r) ==
    OriginUrl(IF r % 2 = 0 THEN "ssh_git" ELSE "https",
              IF r % 2 = 0 THEN <<"o", "m", "e">> ELSE <<"g", "l">>,
              <<"m", DirDigits[r]>>)

\* line 423, and the name getRepository returns (line 425)
TopOrg == <<"o", "p", "e", "n", "m", "i", "c", "r", "o", "s", "c", "o", "p", "y">>
TopName == <<"m", DirDigits[Top]>>

(***************************************************************************)
(* The running program: a stack of OME objects, one per repository level   *)
(* whose pass is under way, each with the position of its code.            *)
(***************************************************************************)
Cur == stack[Len(stack)]
SetCur(f) == [stack EXCEPT ![Len(stack)] = f]
Running == status = "running" /\ stack # <<>>
At(pc) == Running /\ Cur.pc = pc

\* one subprocess started by OME.call or pushTeam, and whether it exited 0
GitCall(dir, cmd, arg, ok) == [cmd |-> cmd, dir |-> dir, arg |-> arg, ok |-> ok]

\* one record written with log.error
ErrorRecord(msg, repo, key) == [msg |-> msg, repo |-> repo, key |-> key]

\* the conversion specifiers of the messages given to log.error
ConversionSpecifiers(msg) == IF msg = "Failed to find %s" THEN 1 ELSE 0

\* what the handler writes instead of a record it cannot format
FormatFailure ==
    ErrorRecord("TypeError: not all arguments converted during string formatting",
                NoDir, <<>>)

\* every record is written as given, whatever its arguments
log_error_unformatted(msg, nargs, repo, key) == <<ErrorRecord(msg, repo, key)>>

\* log.error(msg, *args): the handler formats msg % args; with arguments
\* that the message has no specifier for, the formatting raises inside the
\* handler, which writes the traceback of that error and drops the record
log_error(msg, nargs, repo, key) ==
    IF nargs = 0 \/ ConversionSpecifiers(msg) = nargs
    THEN <<ErrorRecord(msg, repo, key)>>
    ELSE <<FormatFailure>>

\* "merge_%s" % user
RemoteKey(user) == <<"merge_", user>>

\* where OME.__init__ can fail: one of its three git calls, the
\* organization lookup, the repository lookup
ConstructorOutcomes(reset) ==
    {"ok", "log", "status", "org", "repo"} \cup (IF reset THEN {"reset"} ELSE {})

\* lines 198-204
ConstructorCalls(dir, reset, outcome) ==
    (IF reset THEN <<GitCall(dir, "reset", <<>>, outcome # "reset")>> ELSE <<>>)
    \o (IF outcome = "reset" THEN <<>>
        ELSE <<GitCall(dir, "log", <<>>, outcome # "log")>>)
    \o (IF outcome \in {"reset", "log"} THEN <<>>
        ELSE <<GitCall(dir, "submodule_status", <<>>, outcome # "status")>>)

\* both lookups inside the try block: either failure is logged
ConstructorErrorsOfBothLookups(repo, outcome) ==
    IF outcome \in {"org", "repo"} THEN log_error("Failed to find %s", 1, repo, <<>>) ELSE <<>>

\* lines 232-237: a failed get_repo is logged, then self.repo is unset at
\* line 237
ConstructorErrors(repo, outcome) ==
    IF outcome = "repo" THEN log_error("Failed to find %s", 1, repo, <<>>) ELSE <<>>

\* lines 271-282: directories.txt of the current directory is opened for
\* writing only when there is a line to write
WriteDirectories(files, dir, lines) ==
    IF lines = <<>> THEN files ELSE [files EXCEPT ![dir] = lines]

\* the fields of a new OME object and the locals of its methods
NewFrame(repo, c, pc) ==
    [repo |-> repo, pc |-> pc,
     storage |-> c.storage, unique_logins |-> c.unique_logins,
     remotes |-> {}, modifications |-> 0,
     todo |-> c.unique_logins, user |-> "", next |-> 1,
     lines |-> <<>>, cwd |-> NoDir, rmtodo |-> {}]

\* lines 205-222: the attributes the constructor keeps of its arguments
Attributes(org, name, a) ==
    [org |-> org, name |-> name, base |-> a.base, reset |-> a.reset,
     include |-> a.include, exclude |-> a.exclude, token |-> a.token]

\* include and exclude handed over in each other's place
PassedConfigSwapped(f) ==
    [base |-> f.base, reset |-> f.reset, exclude |-> f.include, include |-> f.exclude,
     token |-> f.token]

\* line 346: the arguments the level hands to the constructor of a
\* submodule's pass, next to org and repo
PassedConfig(f) ==
    [base |-> f.base, reset |-> f.reset, exclude |-> f.exclude, include |-> f.include,
     token |-> f.token]

\* the finally clause left out: cleanup finds nothing to remove
ToCleanupNothing(f) == [f EXCEPT !.pc = "cleanup", !.rmtodo = {}]

\* control leaves the try block of the level, by an exception or at its
\* end: the finally clause runs cleanup (lines 353-356 and 440-441)
ToCleanup(f) == [f EXCEPT !.pc = "cleanup", !.rmtodo = f.remotes]

\* lines 417-432: the top-level object is built outside the try block
Main ==
    /\ status = "start"
    /\ \E outcome \in ConstructorOutcomes(args.reset) :
          /\ calls' = calls \o ConstructorCalls(cwd, args.reset, outcome)
          /\ errors' = errors \o ConstructorErrors(Top, outcome)
          /\ IF outcome = "ok"
             THEN LET c == Constructed(Top, pulls[Top], args)
                  IN  /\ stack' = <<NewFrame(Top, c, IF args.info THEN "submodules" ELSE "merge")
                                       @@ Attributes(TopOrg, TopName, args)>>
                      /\ sideFile' = WriteDirectories(sideFile, cwd, c.directories)
                      /\ status' = "running"
                      /\ exc' = FALSE
                      /\ raisedAt' = raisedAt
             ELSE /\ status' = "failed"
                  /\ exc' = TRUE
                  /\ raisedAt' = RaiseLine(outcome)
                  /\ UNCHANGED <<stack, sideFile>>
    /\ UNCHANGED <<args, subs, pulls, probe, cwd, gitRemotes, reports>>

\* lines 308-312: git remote add, then the remote is registered
RemoteAdd ==
    /\ At("merge") /\ Cur.todo # {}
    /\ \E user \in Cur.todo, ok \in BOOLEAN :
          /\ calls' = Append(calls, GitCall(cwd, "remote_add", RemoteKey(user), ok))
          /\ IF ok
             THEN /\ gitRemotes' = [gitRemotes EXCEPT ![cwd] = @ \cup {RemoteKey(user)}]
                  /\ stack' = SetCur([Cur EXCEPT !.pc = "fetch", !.user = user,
                                                 !.todo = @ \ {user},
                                                 !.remotes = @ \cup {RemoteKey(user)}])
                  /\ exc' = exc
                  /\ raisedAt' = raisedAt
             ELSE /\ stack' = SetCur(ToCleanup(Cur))
                  /\ exc' = TRUE
                  /\ raisedAt' = RaiseInCall
                  /\ gitRemotes' = gitRemotes
    /\ UNCHANGED <<args, subs, pulls, probe, cwd, sideFile, reports, errors, status>>

\* the fetch left out: the loop goes on without it
FetchOmitted ==
    /\ At("fetch")
    /\ stack' = SetCur([Cur EXCEPT !.pc = "merge"])
    /\ UNCHANGED <<args, subs, pulls, probe, cwd, gitRemotes, sideFile, calls, reports,
                   errors, exc, raisedAt, status>>

\* line 313
Fetch ==
    /\ At("fetch")
    /\ \E ok \in BOOLEAN :
          /\ calls' = Append(calls, GitCall(cwd, "fetch", RemoteKey(Cur.user), ok))
          /\ stack' = SetCur(IF ok THEN [Cur EXCEPT !.pc = "merge"] ELSE ToCleanup(Cur))
          /\ exc' = (exc \/ ~ok)
          /\ raisedAt' = (IF ok THEN raisedAt ELSE RaiseInCall)
    /\ UNCHANGED <<args, subs, pulls, probe, cwd, gitRemotes, sideFile, reports, errors, status>>

\* lines 315-318
Merge ==
    /\ At("merge") /\ Cur.todo = {} /\ Cur.next <= Len(Cur.storage)
    /\ \E ok \in BOOLEAN :
          /\ calls' = Append(calls, GitCall(cwd, "merge",
                                 <<Cur.storage[Cur.next].repo, Cur.storage[Cur.next].num>>, ok))
          /\ stack' = SetCur(IF ok THEN [Cur EXCEPT !.next = @ + 1, !.modifications = @ + 1]
                             ELSE ToCleanup(Cur))
          /\ exc' = (exc \/ ~ok)
          /\ raisedAt' = (IF ok THEN raisedAt ELSE RaiseInCall)
    /\ UNCHANGED <<args, subs, pulls, probe, cwd, gitRemotes, sideFile, reports, errors, status>>

\* line 320
SubmoduleUpdate ==
    /\ At("merge") /\ Cur.todo = {} /\ Cur.next > Len(Cur.storage)
    /\ \E ok \in BOOLEAN :
          /\ calls' = Append(calls, GitCall(cwd, "submodule_update", <<>>, ok))
          /\ stack' = SetCur(IF ok THEN [Cur EXCEPT !.pc = "submodules"] ELSE ToCleanup(Cur))
          /\ exc' = (exc \/ ~ok)
          /\ raisedAt' = (IF ok THEN raisedAt ELSE RaiseInCall)
    /\ UNCHANGED <<args, subs, pulls, probe, cwd, gitRemotes, sideFile, reports, errors, status>>

\* lines 347-348 and 299-304: info() prints the storage of the module-level
\* name ome, which line 432 binds to the top-level object
IssueUrls(storage) == [i \in 1..Len(storage) |-> <<storage[i].repo, storage[i].num>>]

InfoStorage(self) == stack[1].storage

Info ==
    /\ At("info")
    /\ reports' = Append(reports, [by |-> Cur.repo, urls |-> IssueUrls(InfoStorage(Cur))])
    /\ stack' = SetCur([Cur EXCEPT !.pc = "submodules"])
    /\ UNCHANGED <<args, subs, pulls, probe, cwd, gitRemotes, sideFile, calls, errors, exc, status>>
    /\ raisedAt' = raisedAt

\* lines 324-329: the probe, then the directory of the level is remembered
Foreach ==
    /\ At("submodules")
    /\ \E ok \in BOOLEAN :
          /\ calls' = Append(calls, GitCall(cwd, "submodule_foreach", <<>>, ok))
          /\ stack' = SetCur(IF ok THEN [Cur EXCEPT !.pc = "walk", !.lines = subs[Cur.repo],
                                                    !.cwd = cwd]
                             ELSE ToCleanup(Cur))
          /\ exc' = (exc \/ ~ok)
          /\ raisedAt' = (IF ok THEN raisedAt ELSE RaiseInCall)
    /\ UNCHANGED <<args, subs, pulls, probe, cwd, gitRemotes, sideFile, reports, errors, status>>

\* lines 331-350: the next listed submodule is entered and its pass is
\* constructed; when os.chdir or the constructor raises, ome stays None
EnterSubmodule ==
    /\ At("walk") /\ Cur.lines # <<>>
    /\ LET sub    == Head(Cur.lines)
           parent == [Cur EXCEPT !.pc = "restore", !.lines = Tail(@)]
           u      == ParseUrl(UrlOfRepo(sub))
           cfg    == PassedConfig(Cur)
       IN  \E outcome \in ConstructorOutcomes(cfg.reset) \cup {"cd"} :
              IF outcome = "cd"
              THEN /\ stack' = SetCur(parent)
                   /\ exc' = TRUE
                   /\ raisedAt' = RaiseLine(outcome)
                   /\ UNCHANGED <<cwd, calls, errors, sideFile>>
              ELSE /\ cwd' = sub
                   /\ calls' = calls \o ConstructorCalls(sub, cfg.reset, outcome)
                   /\ errors' = errors \o ConstructorErrors(sub, outcome)
                   /\ IF outcome = "ok"
                      THEN LET c == Constructed(sub, pulls[sub], cfg)
                           IN  /\ stack' = Append(SetCur(parent),
                                      NewFrame(sub, c, IF args.info THEN "info" ELSE "merge")
                                          @@ Attributes(u.org, u.repo, cfg))
                               /\ sideFile' = WriteDirectories(sideFile, sub, c.directories)
                               /\ exc' = exc
                               /\ raisedAt' = raisedAt
                      ELSE /\ stack' = SetCur(parent)
                           /\ exc' = TRUE
                           /\ raisedAt' = RaiseLine(outcome)
                           /\ sideFile' = sideFile
    /\ UNCHANGED <<args, subs, pulls, probe, gitRemotes, reports, status>>

\* a commit only for more than one modification
CommitDueAboveOne(f) == f.modifications > 1

\* line 360
CommitDue(f) == f.modifications # 0

\* lines 360-362, the count is nonzero
Commit ==
    /\ At("walk") /\ Cur.lines = <<>> /\ CommitDue(Cur)
    /\ \E ok \in BOOLEAN :
          /\ calls' = Append(calls, GitCall(cwd, "commit", <<>>, ok))
          /\ stack' = SetCur(IF ok THEN [Cur EXCEPT !.pc = "returned"] ELSE ToCleanup(Cur))
          /\ exc' = (exc \/ ~ok)
          /\ raisedAt' = (IF ok THEN raisedAt ELSE RaiseInCall)
    /\ UNCHANGED <<args, subs, pulls, probe, cwd, gitRemotes, sideFile, reports, errors, status>>

\* line 360, the count is zero
NoCommit ==
    /\ At("walk") /\ Cur.lines = <<>> /\ ~ CommitDue(Cur)
    /\ stack' = SetCur([Cur EXCEPT !.pc = "returned"])
    /\ UNCHANGED <<args, subs, pulls, probe, cwd, gitRemotes, sideFile, calls, reports, errors,
                   exc, status>>
    /\ raisedAt' = raisedAt

\* the count of the submodule dropped
AccumulateNothing ==
    /\ At("returned") /\ Len(stack) > 1
    /\ stack' = [stack EXCEPT ![Len(stack)] = ToCleanup(Cur)]
    /\ UNCHANGED <<args, subs, pulls, probe, cwd, gitRemotes, sideFile, calls, reports, errors,
                   exc, status>>
    /\ raisedAt' = raisedAt

\* line 352, then the finally clause of the submodule
Accumulate ==
    /\ At("returned") /\ Len(stack) > 1
    /\ stack' = [stack EXCEPT ![Len(stack) - 1].modifications = @ + Cur.modifications,
                              ![Len(stack)] = ToCleanup(Cur)]
    /\ UNCHANGED <<args, subs, pulls, probe, cwd, gitRemotes, sideFile, calls, reports, errors,
                   exc, status>>
    /\ raisedAt' = raisedAt

\* line 438: if args.buildnumber
PushDue(b) == b # <<>> /\ b[1] # 0

\* lines 438-439 and 389-398
Push ==
    /\ At("returned") /\ Len(stack) = 1 /\ PushDue(args.buildnumber)
    /\ \E ok \in BOOLEAN :
          /\ calls' = Append(calls, GitCall(cwd, "push",
                                 [base |-> args.base, number |-> FormatG(args.buildnumber[1])], ok))
          /\ exc' = (exc \/ ~ok)
          /\ raisedAt' = (IF ok THEN raisedAt ELSE RaiseInPush)
    /\ stack' = SetCur(ToCleanup(Cur))
    /\ UNCHANGED <<args, subs, pulls, probe, cwd, gitRemotes, sideFile, reports, errors, status>>

\* line 438, no push
NoPush ==
    /\ At("returned") /\ Len(stack) = 1 /\ ~ PushDue(args.buildnumber)
    /\ stack' = SetCur(ToCleanup(Cur))
    /\ UNCHANGED <<args, subs, pulls, probe, cwd, gitRemotes, sideFile, calls, reports, errors,
                   exc, status>>
    /\ raisedAt' = raisedAt

\* lines 366-370: one git remote rm; a failure is caught and handed to
\* log.error
RemoteRm ==
    /\ At("cleanup") /\ Cur.rmtodo # {}
    /\ \E k \in Cur.rmtodo, ok \in BOOLEAN :
          /\ calls' = Append(calls, GitCall(cwd, "remote_rm", k, ok))
          /\ gitRemotes' = IF ok THEN [gitRemotes EXCEPT ![cwd] = @ \ {k}] ELSE gitRemotes
          /\ errors' = IF ok THEN errors
                       ELSE errors \o log_error("Failed to remove", 1, Cur.repo, k)
          /\ stack' = SetCur([Cur EXCEPT !.rmtodo = @ \ {k}])
    /\ UNCHANGED <<args, subs, pulls, probe, cwd, sideFile, reports, exc, status>>
    /\ raisedAt' = raisedAt

\* cleanup returns: the submodule's object is dropped (line 357), or the
\* script ends (line 441)
EndCleanup ==
    /\ At("cleanup") /\ Cur.rmtodo = {}
    /\ IF Len(stack) > 1
       THEN /\ stack' = SubSeq(stack, 1, Len(stack) - 1)
            /\ status' = status
       ELSE /\ stack' = SetCur([Cur EXCEPT !.pc = "end"])
            /\ status' = IF exc THEN "failed" ELSE "done"
    /\ UNCHANGED <<args, subs, pulls, probe, cwd, gitRemotes, sideFile, calls, reports, errors, exc>>
    /\ raisedAt' = raisedAt

\* no change of directory on the way out
RestoreDirSkipped(f) == cwd

\* the directory the process is in after line 358
RestoreDir(f) == f.cwd

\* the exception dropped by the finally clause: the loop always goes on
AfterRestoreSwallowing(f) == [f EXCEPT !.pc = "walk"]

\* after the finally clauses of lines 353-358 a pending exception travels
\* on, out of the loop and of the method; otherwise the loop goes on
AfterRestore(f) == IF exc THEN ToCleanup(f) ELSE [f EXCEPT !.pc = "walk"]

\* line 358 and what follows it
Restore ==
    /\ At("restore")
    /\ cwd' = RestoreDir(Cur)
    /\ stack' = SetCur(AfterRestore(Cur))
    /\ UNCHANGED <<args, subs, pulls, probe, gitRemotes, sideFile, calls, reports, errors, exc,
                   status>>
    /\ raisedAt' = raisedAt

Next ==
    \/ Main
    \/ RemoteAdd
    \/ Fetch
    \/ Merge
    \/ SubmoduleUpdate
    \/ Info
    \/ Foreach
    \/ EnterSubmodule
    \/ Commit
    \/ NoCommit
    \/ Accumulate
    \/ Push
    \/ NoPush
    \/ RemoteRm
    \/ EndCleanup
    \/ Restore

Spec == Init /\ [][Next]_vars

\* the constructor alone, on every input of FilterListings
NextFilter == Main

SpecFilter == InitFilter /\ [][NextFilter]_vars

(***************************************************************************)
(* OME.submodules, lines 324-341: the probe "git submodule foreach" is     *)
(* started with its standard output on a pipe, OME.call waits for it to    *)
(* exit, then communicate() reads the pipe and the loop parses the output. *)
(* Text is a sequence of one-character strings.                            *)
(***************************************************************************)
\* line 324, inside OME.call at line 293: the child is started and the
\* script stands in p.wait() at line 294
InitProbe ==
    /\ subs = [r \in {Top} |-> <<>>]
    /\ pulls = [r \in {Top} |-> <<>>]
    /\ args = [info |-> FALSE, reset |-> FALSE, buildnumber |-> <<>>,
               base |-> Base, include |-> {"include"}, exclude |-> {"exclude"},
               token |-> Token]
    /\ \E listed \in Listed :
          probe = [pc |-> "wait", listed |-> listed, towrite |-> ProbeOutput(listed),
                   pipe |-> <<>>, exited |-> FALSE, lines |-> <<>>, processed |-> <<>>]
    /\ Start

ProbeRunning == probe.pc # "none"

\* the child writes a line to its standard output; the write blocks while
\* the pipe is full
ChildWrite ==
    /\ ProbeRunning /\ ~ probe.exited
    /\ probe.towrite # <<>>
    /\ Len(probe.pipe) < PipeCapacity
    /\ probe' = [probe EXCEPT !.towrite = Tail(@), !.pipe = Append(@, Head(probe.towrite))]
    /\ UNCHANGED <<args, subs, pulls, stack, cwd, gitRemotes, sideFile, calls, reports,
                   errors, exc, raisedAt, status>>

\* the child has written everything and exits
ChildExit ==
    /\ ProbeRunning /\ ~ probe.exited
    /\ probe.towrite = <<>>
    /\ probe' = [probe EXCEPT !.exited = TRUE]
    /\ UNCHANGED <<args, subs, pulls, stack, cwd, gitRemotes, sideFile, calls, reports,
                   errors, exc, raisedAt, status>>

\* lines 294-297: p.wait() returns once the child has exited; nothing reads
\* the pipe before that
WaitReturns ==
    /\ probe.pc = "wait" /\ probe.exited
    /\ probe' = [probe EXCEPT !.pc = "communicate"]
    /\ UNCHANGED <<args, subs, pulls, stack, cwd, gitRemotes, sideFile, calls, reports,
                   errors, exc, raisedAt, status>>

\* lines 326-329: communicate() reads the pipe to its end, each line with
\* its newline, and the text is split at the newlines
Communicate ==
    /\ probe.pc = "communicate"
    /\ LET o == Flatten([i \in 1..Len(probe.pipe) |-> Append(probe.pipe[i], "\n")])
       IN  probe' = [probe EXCEPT !.pc = "loop", !.pipe = <<>>, !.lines = split(o, "\n")]
    /\ UNCHANGED <<args, subs, pulls, stack, cwd, gitRemotes, sideFile, calls, reports,
                   errors, exc, raisedAt, status>>

\* lines 330-341: one turn of the loop takes two lines off the output
PopEntry ==
    /\ probe.pc = "loop" /\ Flatten(probe.lines) # <<>>
    /\ IF Len(probe.lines) < 2
       THEN probe' = [probe EXCEPT !.pc = "raised"]
       ELSE LET dir == ParseDir(probe.lines[1])
                u   == ParseUrl(strip(probe.lines[2]))
            IN  probe' = [probe EXCEPT
                            !.lines = Tail(Tail(@)),
                            !.processed = Append(@, [dir |-> dir, org |-> u.org, repo |-> u.repo])]
    /\ UNCHANGED <<args, subs, pulls, stack, cwd, gitRemotes, sideFile, calls, reports,
                   errors, exc, raisedAt, status>>

\* line 330: nothing but empty lines is left
LoopExit ==
    /\ probe.pc = "loop" /\ Flatten(probe.lines) = <<>>
    /\ probe' = [probe EXCEPT !.pc = "done"]
    /\ UNCHANGED <<args, subs, pulls, stack, cwd, gitRemotes, sideFile, calls, reports,
                   errors, exc, raisedAt, status>>

NextProbe ==
    \/ ChildWrite
    \/ ChildExit
    \/ WaitReturns
    \/ Communicate
    \/ PopEntry
    \/ LoopExit

SpecProbe == InitProbe /\ [][NextProbe]_vars

(***************************************************************************)
(* Vocabulary of the properties                                            *)
(***************************************************************************)
Frames == {stack[i] : i \in 1..Len(stack)}

CallsIn(repo, cmd) == SelectSeq(calls, LAMBDA c : c.cmd = cmd /\ c.dir = repo)

LowerAll(labels) == {Lower(l) : l \in labels}

\* the pass of the level has selected its pull requests
IsSelected(f, pr) == Data(f.repo, pr) \in Range(f.storage)

\* the selection rule with labels compared as written
QualifiesExact(pr) ==
    /\ pr.base = args.base
    /\ (pr.login \in PublicMembers \/ pr.labels \cap args.include # {})
    /\ pr.labels \cap args.exclude = {}

\* the selection rule with labels compared without regard to case
QualifiesAnyCase(pr) ==
    /\ pr.base = args.base
    /\ (pr.login \in PublicMembers \/ LowerAll(pr.labels) \cap LowerAll(args.include) # {})
    /\ LowerAll(pr.labels) \cap LowerAll(args.exclude) = {}

\* C1 as stated: a listed pull request is selected iff its base is the
\* target base, its author is a public member or its labels intersect the
\* include set, and its labels do not intersect the exclude set
C1_AsStated ==
    \A f \in Frames : \A pr \in Range(pulls[f.repo]) :
        IsSelected(f, pr) <=> QualifiesExact(pr)

\* C1 amended: the same rule with label names compared case-insensitively;
\* a different base is never selected, and a hit on both include and exclude
\* is never selected
C1_Selection ==
    \A f \in Frames : \A pr \in Range(pulls[f.repo]) :
        /\ IsSelected(f, pr) <=> QualifiesAnyCase(pr)
        /\ pr.base # args.base => ~ IsSelected(f, pr)
        /\ ( /\ LowerAll(pr.labels) \cap LowerAll(args.include) # {}
             /\ LowerAll(pr.labels) \cap LowerAll(args.exclude) # {} ) => ~ IsSelected(f, pr)

\* a pass that selected a pull request by a label spelt in another case and
\* turned down a public member's pull request that hit both include and
\* exclude
C1_Witness ==
    \E f \in Frames : \E p, r \in Range(pulls[f.repo]) :
        /\ IsSelected(f, p) /\ p.login \notin PublicMembers
        /\ p.labels \cap args.include = {}
        /\ r.login \in PublicMembers
        /\ LowerAll(r.labels) \cap LowerAll(args.include) # {}
        /\ LowerAll(r.labels) \cap LowerAll(args.exclude) # {}
        /\ r.base = args.base /\ ~ IsSelected(f, r)

\* merge() of the level has returned
MergePassCompleted(f) ==
    ~ args.info /\ f.pc \in {"submodules", "walk", "restore", "returned"}

Ascending(m) == \A k \in 1..(Len(m) - 1) : m[k].arg[2] < m[k + 1].arg[2]

\* C2: once the merge pass of a level has completed, git merge --no-ff has
\* been invoked exactly once for each selected pull request of the level and
\* for no other, in strictly ascending pull-request number
C2_MergeOrder ==
    \A f \in Frames : MergePassCompleted(f) =>
        LET m == CallsIn(f.repo, "merge")
        IN  /\ Len(m) = Cardinality({pr \in Range(pulls[f.repo]) : QualifiesAnyCase(pr)})
            /\ {m[k].arg : k \in 1..Len(m)} =
                   {<<f.repo, pr.num>> : pr \in {x \in Range(pulls[f.repo]) : QualifiesAnyCase(x)}}
            /\ \A k \in 1..Len(m) : m[k].ok
            /\ Ascending(m)

\* a completed pass that merged two pull requests the API listed in
\* descending number, next to one it did not select
C2_Witness ==
    \E f \in Frames :
        /\ MergePassCompleted(f)
        /\ Len(pulls[f.repo]) >= 2
        /\ pulls[f.repo][1].num > pulls[f.repo][2].num
        /\ Len(CallsIn(f.repo, "merge")) = 2

\* processing of the level is over: its object is gone, or the script ended
LevelEnded(r) ==
    \/ \A f \in Frames : f.repo # r
    \/ status \in {"done", "failed"}

\* the remotes the pass of level r added with git remote add
AddedKeys(r) ==
    LET adds == CallsIn(r, "remote_add")
    IN  {adds[i].arg : i \in {j \in 1..Len(adds) : adds[j].ok}}

RemovalsOf(r, k) ==
    SelectSeq(calls, LAMBDA c : c.cmd = "remote_rm" /\ c.dir = r /\ c.arg = k)

\* C3 as stated: once processing of a level has ended, no remote that its
\* pass added is left in the repository
C3_AsStated ==
    \A r \in DOMAIN subs : LevelEnded(r) => AddedKeys(r) \cap gitRemotes[r] = {}

\* C3 amended: once processing of a level has ended, by completion or by an
\* error at any step, git remote rm has been run exactly once in that
\* repository for every remote its pass added, and the remote is absent
\* unless that git remote rm itself exited nonzero
C3_RemotesRemoved ==
    \A r \in DOMAIN subs : LevelEnded(r) =>
        \A k \in AddedKeys(r) :
            LET rm == RemovalsOf(r, k)
            IN  /\ Len(rm) = 1
                /\ (k \in gitRemotes[r]) <=> ~ rm[1].ok

\* a failed run that added a remote at the top level and one in a
\* submodule; the submodule's is gone, the top level's removal failed
C3_Witness ==
    /\ status = "failed"
    /\ \E r \in DOMAIN subs \ {Top} :
          /\ AddedKeys(r) # {} /\ gitRemotes[r] = {}
          /\ AddedKeys(Top) # {} /\ gitRemotes[Top] # {}

RECURSIVE Descendants(_)
Descendants(r) ==
    UNION {{subs[r][i]} \cup Descendants(subs[r][i]) : i \in 1..Len(subs[r])}

\* the git merge invocations that succeeded in the repositories of R
OkMerges(R) == Len(SelectSeq(calls, LAMBDA c : c.cmd = "merge" /\ c.dir \in R /\ c.ok))

\* submodules() of the level has returned
WalkReturned(f) == f.pc = "returned" \/ (f.pc \in {"cleanup", "end"} /\ ~ exc)

CommitIndexes(r) == {i \in 1..Len(calls) : calls[i].cmd = "commit" /\ calls[i].dir = r}

\* C4 as stated: when the walk of a level has returned, the level has no
\* aggregate commit if the modifications of its submodules are zero, and
\* exactly one otherwise
C4_AsStated ==
    \A f \in Frames : WalkReturned(f) =>
        Cardinality(CommitIndexes(f.repo)) =
            (IF OkMerges(Descendants(f.repo)) = 0 THEN 0 ELSE 1)

\* C4 amended: the count that decides is the level's own merges plus the
\* modifications of its submodules; when the walk of a level has returned
\* there is no aggregate commit if that count is zero and exactly one
\* otherwise, never more than one, and the commit comes after every
\* submodule of the level has been processed
C4_Commit ==
    \A r \in DOMAIN subs :
        /\ Cardinality(CommitIndexes(r)) <= 1
        /\ \A f \in Frames : (f.repo = r /\ WalkReturned(f)) =>
              /\ Cardinality(CommitIndexes(r)) =
                     (IF OkMerges({r} \cup Descendants(r)) = 0 THEN 0 ELSE 1)
              /\ f.modifications = OkMerges({r} \cup Descendants(r))
        /\ \A i \in CommitIndexes(r) :
              /\ \A j \in (i + 1)..Len(calls) : calls[j].dir \notin Descendants(r)
              /\ \A c \in Range(subs[r]) :
                    \E j \in 1..(i - 1) :
                        calls[j].dir = c /\ calls[j].cmd = "submodule_foreach" /\ calls[j].ok

\* a level with submodules that merged a pull request of its own while no
\* submodule changed, and committed; next to a level that merged nothing
\* and did not commit
C4_Witness ==
    \E f \in Frames :
        /\ WalkReturned(f) /\ subs[f.repo] # <<>>
        /\ OkMerges({f.repo}) > 0 /\ OkMerges(Descendants(f.repo)) = 0
        /\ Cardinality(CommitIndexes(f.repo)) = 1
        /\ \E c \in Range(subs[f.repo]) :
              /\ CommitIndexes(c) = {}
              /\ \E j \in 1..Len(calls) : calls[j].dir = c /\ calls[j].cmd = "submodule_update"

\* the rest of a directive line: what follows the directive and the blanks
\* after it
RECURSIVE StripBlanks(_)
StripBlanks(line) ==
    IF line # <<>> /\ Head(line) = Blank THEN StripBlanks(Tail(line)) ELSE line

Remainder(line) == StripBlanks(Tail(line))

RemaindersOf(pr) ==
    Flatten([i \in 1..Len(pr.comments) |->
        LET kept == SelectSeq(splitlines(pr.comments[i]), startswith)
        IN  [j \in 1..Len(kept) |-> Remainder(kept[j])]])

\* C5 as stated: the side file of a level holds, for its selected pull
\* requests and in comment order, the remainder of every comment line that
\* begins with the directive ("--test integration/foo" gives
\* "integration/foo"), and nothing else
C5_AsStated ==
    \A f \in Frames :
        LET sel == SelectSeq(pulls[f.repo], QualifiesAnyCase)
        IN  sideFile[f.repo] = Flatten([i \in 1..Len(sel) |-> RemaindersOf(sel[i])])

ChangingCommands == {"remote_add", "fetch", "merge", "commit", "push"}

\* C6 as stated: with --info no git remote add, fetch, merge, aggregate
\* commit or push is ever invoked
C6_AsStated ==
    args.info => \A i \in 1..Len(calls) : calls[i].cmd \notin ChangingCommands

ReportsBy(r) == SelectSeq(reports, LAMBDA x : x.by = r)

\* C7 as stated: in info mode every level, the top level included, reports
\* the pull requests its own pass selected and no others
C7_AsStated ==
    args.info =>
        \A f \in Frames : f.pc # "info" => ReportsBy(f.repo) = <<IssueUrls(f.storage)>>

\* C8: after a git invocation of the command runner exited nonzero in the
\* reset, merge or submodule phase, every later invocation is a git remote
\* rm of the cleanup: nothing is retried and nothing else is run
C8_Fatal ==
    \A i \in 1..Len(calls) :
        (~ calls[i].ok /\ calls[i].cmd \notin {"remote_rm", "push"}) =>
            \A j \in (i + 1)..Len(calls) : calls[j].cmd = "remote_rm"

\* a run that failed on a git merge in a submodule and then removed the
\* remotes of the submodule and of the top level
C8_Witness ==
    /\ status = "failed"
    /\ \E i \in 1..Len(calls) :
          /\ ~ calls[i].ok /\ calls[i].cmd = "merge" /\ calls[i].dir # Top
          /\ \E j, k \in (i + 1)..Len(calls) :
                /\ calls[j].cmd = "remote_rm" /\ calls[j].dir = calls[i].dir
                /\ calls[k].cmd = "remote_rm" /\ calls[k].dir = Top

PushIndexes == {i \in 1..Len(calls) : calls[i].cmd = "push"}

\* C9 as stated: a run that completes without error has pushed
\* HEAD:<base>/<buildnumber> exactly once, after all merges and commits, if
\* --buildnumber was given (0 included), and has not pushed otherwise
C9_AsStated ==
    status = "done" =>
        IF args.buildnumber = <<>> THEN PushIndexes = {}
        ELSE /\ Cardinality(PushIndexes) = 1
             /\ \A i \in PushIndexes :
                   /\ calls[i].arg = [base |-> args.base, number |-> Decimal(args.buildnumber[1])]
                   /\ \A j \in (i + 1)..Len(calls) : calls[j].cmd = "remote_rm"

\* the walk of the level has started and no submodule of it is under way
BetweenSubmodules(f) == f.cwd # NoDir /\ f.pc \in {"walk", "returned", "cleanup", "end"}

\* C10: whenever no submodule of a level's walk is under way, after each
\* submodule and after the walk, returned or raised, the working directory
\* is the directory that was current when the walk of the level started
C10_Cwd ==
    \A i \in 1..Len(stack) :
        (i = Len(stack) /\ BetweenSubmodules(stack[i])) =>
            /\ cwd = stack[i].cwd
            /\ cwd = stack[i].repo

\* an error two levels down has travelled up to the top level, which is
\* back in its own directory
C10_Witness ==
    /\ exc /\ Len(stack) = 1 /\ Cur.pc = "cleanup" /\ Cur.cwd # NoDir
    /\ \E i \in 1..Len(calls) :
          ~ calls[i].ok /\ calls[i].dir \notin ({Top} \cup Range(subs[Top]))

RemovalIndexes(r) == {i \in 1..Len(calls) : calls[i].cmd = "remote_rm" /\ calls[i].dir = r}

\* cleanup of the level has run to its end
CleanupDone(f) == (f.pc = "cleanup" /\ f.rmtodo = {}) \/ f.pc = "end"

\* the pending exception, if any, comes from a statement outside cleanup
NotRaisedByRemoval ==
    exc => \/ raisedAt \in {RaiseInOrgLookup, RaiseInGetPulls, RaiseInChdir, RaiseInPush}
           \/ \E i \in 1..Len(calls) : ~ calls[i].ok /\ calls[i].cmd # "remote_rm"

\* the attempts of C11: when cleanup of a level has run, git remote rm has
\* been attempted exactly once for every remote the level registered,
\* whether or not removals failed, and no failed removal has raised
C11_Attempts ==
    /\ \A f \in Frames : CleanupDone(f) =>
          \A k \in f.remotes : Cardinality({i \in RemovalIndexes(f.repo) : calls[i].arg = k}) = 1
    /\ NotRaisedByRemoval

\* C11 as stated: when cleanup of a level has run, git remote rm has been
\* attempted exactly once for every registered remote, every failed removal
\* is in the log as a failure to remove that remote, and no failed removal
\* has raised
C11_AsStated ==
    /\ C11_Attempts
    /\ \A i \in 1..Len(calls) :
          (calls[i].cmd = "remote_rm" /\ ~ calls[i].ok) =>
              \E e \in Range(errors) : e.msg = "Failed to remove" /\ e.key = calls[i].arg

IndexesIn(r, cmd) == {i \in 1..Len(calls) : calls[i].cmd = cmd /\ calls[i].dir = r}

\* C12: in the merge phase of a level every git remote add that succeeded
\* is immediately followed by the git fetch of that remote and every fetch
\* immediately follows its remote add; every merge comes after the last
\* fetch; the one git submodule update comes after the last merge; and
\* nothing is run in a submodule of the level before that update
C12_Order ==
    \A r \in DOMAIN subs :
        /\ \A i \in IndexesIn(r, "remote_add") :
              (calls[i].ok /\ i < Len(calls)) =>
                  /\ calls[i + 1].cmd = "fetch" /\ calls[i + 1].dir = r
                  /\ calls[i + 1].arg = calls[i].arg
        /\ \A j \in IndexesIn(r, "fetch") :
              /\ j > 1 /\ calls[j - 1].cmd = "remote_add" /\ calls[j - 1].dir = r
              /\ calls[j - 1].ok /\ calls[j - 1].arg = calls[j].arg
        /\ \A k \in IndexesIn(r, "merge") :
              \A j \in IndexesIn(r, "remote_add") \cup IndexesIn(r, "fetch") : j < k
        /\ Cardinality(IndexesIn(r, "submodule_update")) <= 1
        /\ \A u \in IndexesIn(r, "submodule_update") :
              \A k \in IndexesIn(r, "remote_add") \cup IndexesIn(r, "fetch")
                           \cup IndexesIn(r, "merge") : k < u
        /\ ~ args.info =>
              \A x \in 1..Len(calls) : calls[x].dir \in Descendants(r) =>
                  \E u \in IndexesIn(r, "submodule_update") : u < x /\ calls[u].ok

\* a level that added and fetched two remotes, merged two pull requests,
\* updated its submodules and went down into one of them
C12_Witness ==
    \E r \in DOMAIN subs :
        /\ Cardinality(IndexesIn(r, "fetch")) = 2
        /\ Cardinality(IndexesIn(r, "merge")) = 2
        /\ \E x \in 1..Len(calls) : calls[x].dir \in Descendants(r)

LookupLogged == \E e \in Range(errors) : e.msg = "Failed to find %s"

\* C13 as stated: a failed organization lookup or repository lookup raises
\* nothing itself; it is logged and the constructor goes on past it
C13_AsStated ==
    /\ raisedAt # RaiseInOrgLookup
    /\ raisedAt = RaiseInGetPulls => LookupLogged

\* C13 amended: a failed repository lookup raises nothing itself: it is
\* logged and the constructor goes on to the listing of the pull requests,
\* which raises on the unset repository handle; a failed organization
\* lookup is not caught: it raises out of the constructor and nothing is
\* logged
C13_Lookup ==
    /\ raisedAt = RaiseInGetPulls => LookupLogged
    /\ raisedAt = RaiseInOrgLookup => ~ LookupLogged
    /\ LookupLogged => (exc /\ raisedAt = RaiseInGetPulls)

\* the repository lookup of a submodule's pass failed: it is logged, and
\* the exception of the listing is on its way up
C13_Witness ==
    /\ raisedAt = RaiseInGetPulls
    /\ \E e \in Range(errors) : e.msg = "Failed to find %s" /\ e.repo # Top

\* the logins of the pull requests the pass of the level selects
SelectedLogins(r) == {pr.login : pr \in {x \in Range(pulls[r]) : QualifiesAnyCase(x)}}

KeysOf(r, cmd) == {calls[i].arg : i \in IndexesIn(r, cmd)}

OncePerKey(r, cmd) ==
    \A i, j \in IndexesIn(r, cmd) : calls[i].arg = calls[j].arg => i = j

\* C14: the unique logins of a constructed pass are exactly the author
\* logins of its selected pull requests; git remote add and git fetch are
\* issued for remotes of those logins only, never twice for one login, and
\* once each for every such login when the merge pass has completed; the
\* remote registry of the level holds exactly the remotes whose git remote
\* add succeeded
C14_Logins ==
    \A f \in Frames :
        LET keys == {RemoteKey(u) : u \in SelectedLogins(f.repo)}
        IN  /\ f.unique_logins = SelectedLogins(f.repo)
            /\ KeysOf(f.repo, "remote_add") \subseteq keys
            /\ KeysOf(f.repo, "fetch") \subseteq keys
            /\ OncePerKey(f.repo, "remote_add") /\ OncePerKey(f.repo, "fetch")
            /\ MergePassCompleted(f) =>
                  /\ KeysOf(f.repo, "remote_add") = keys
                  /\ KeysOf(f.repo, "fetch") = keys
            /\ f.remotes = AddedKeys(f.repo)

\* a completed merge pass of a submodule over a listing with a selected and
\* an unselected author: one remote added and fetched, and registered
C14_Witness ==
    \E f \in Frames :
        /\ MergePassCompleted(f) /\ f.repo # Top
        /\ f.unique_logins # {}
        /\ \E pr \in Range(pulls[f.repo]) : pr.login \notin f.unique_logins
        /\ Cardinality(IndexesIn(f.repo, "fetch")) = 1
        /\ f.remotes # {}

\* the script stands in p.wait() and the child stands in a write to the
\* full pipe
ProbeHangs ==
    /\ probe.pc = "wait" /\ ~ probe.exited
    /\ probe.towrite # <<>> /\ Len(probe.pipe) >= PipeCapacity

\* the loop has taken every listed submodule once, in the order listed
ProbeConsumed ==
    probe.pc = "done" =>
        /\ Len(probe.processed) = Len(probe.listed)
        /\ \A i \in 1..Len(probe.processed) : probe.processed[i].dir = DirOf(i)

\* C15 as stated: for any number of listed submodules the walk of a level
\* gets to the end of the probe's output: the probe never hangs, and the
\* loop takes every listed submodule once, in listing order
C15_AsStated == ~ ProbeHangs /\ ProbeConsumed

\* C17: the loop yields the organization and the repository name of the
\* origin URL, for git@github.com:org/repo.git and for
\* https://github.com/org/repo alike: a trailing .git is stripped and what
\* stands before the colon is dropped
C17_UrlParsing ==
    \A i \in 1..Len(probe.processed) :
        /\ i <= Len(probe.listed)
        /\ probe.processed[i].org = probe.listed[i].org
        /\ probe.processed[i].repo = probe.listed[i].name

\* a probe whose output held git@github.com:ome/git.git and
\* https://github.com/gl/bf has been parsed to its end
C17_Witness ==
    /\ probe.pc = "done" /\ Len(probe.processed) = 2
    /\ probe.listed[1] = [form |-> "ssh_git", org |-> <<"o", "m", "e">>, name |-> <<"g", "i", "t">>]
    /\ probe.listed[2] = [form |-> "https", org |-> <<"g", "l">>, name |-> <<"b", "f">>]
    /\ probe.processed[1].org = <<"o", "m", "e">> /\ probe.processed[1].repo = <<"g", "i", "t">>
    /\ probe.processed[2].org = <<"g", "l">> /\ probe.processed[2].repo = <<"b", "f">>

\* C16: the pass of every level, at any depth, has the base branch, the
\* reset flag, the include labels, the exclude labels and the access token
\* of the top-level pass; organization and repository name are those of the
\* origin URL of the level's repository
C16_Config ==
    \A i \in 1..Len(stack) :
        LET f == stack[i]
        IN  /\ f.base = args.base /\ f.reset = args.reset
            /\ f.include = args.include /\ f.exclude = args.exclude
            /\ f.token = args.token
            /\ i = 1 => f.org = TopOrg /\ f.name = TopName
            /\ i > 1 => /\ f.org = (IF f.repo % 2 = 0 THEN <<"o", "m", "e">> ELSE <<"g", "l">>)
                        /\ f.name = <<"m", DirDigits[f.repo]>>

\* a pass two levels below the top, constructed with --reset given
C16_Witness ==
    /\ Len(stack) = 3 /\ args.reset /\ stack[3].reset
    /\ stack[2].org = <<"o", "m", "e">> /\ stack[3].org = <<"g", "l">>
    /\ stack[3].include = {"include"} /\ stack[3].exclude = {"exclude"}

\* the git merge invocations in the repositories of R
MergesIn(R) == Cardinality({i \in 1..Len(calls) : calls[i].cmd = "merge" /\ calls[i].dir \in R})

Subtree(r) == {r} \cup Descendants(r)

RECURSIVE SubtreeMerges(_)
SubtreeMerges(cs) ==
    IF cs = <<>> THEN 0 ELSE MergesIn(Subtree(Head(cs))) + SubtreeMerges(Tail(cs))

\* the submodules of the level its walk has gone through
Walked(f) == SelectSeq(subs[f.repo], LAMBDA c : c \notin Range(f.lines))

\* C18: in a run without --info, while the walk of a level goes on without
\* error its modification count is the number of pull requests merged at
\* the level itself plus the counts of the submodules walked so far; at the
\* commit decision it is the number of git merge invocations in the subtree
\* of the level, and a level that merged a pull request of its own has made
\* the aggregate commit when its walk returns, with or without submodules
C18_Modifications ==
    ~ args.info =>
        \A f \in Frames :
            /\ f.pc = "walk" =>
                  f.modifications = Len(f.storage) + SubtreeMerges(Walked(f))
            /\ (f.pc = "walk" /\ f.lines = <<>>) \/ f.pc = "returned" =>
                  /\ MergesIn({f.repo}) = Len(f.storage)
                  /\ f.modifications = MergesIn(Subtree(f.repo))
            /\ (f.pc = "returned" /\ MergesIn({f.repo}) >= 1) =>
                  \E i \in CommitIndexes(f.repo) : calls[i].ok

\* the walk of the top level has returned: one pull request merged there,
\* one in a submodule, a count of two and the commit made; the submodule
\* has no submodules and made its commit too
C18_Witness ==
    /\ ~ args.info /\ stack # <<>>
    /\ stack[1].pc = "returned" /\ stack[1].modifications = 2
    /\ MergesIn({Top}) = 1 /\ CommitIndexes(Top) # {}
    /\ \E c \in Range(subs[Top]) :
          subs[c] = <<>> /\ MergesIn({c}) = 1 /\ CommitIndexes(c) # {}

====
